---- MODULE Spec2Model ----
(***************************************************************************)
(* Model of app.py: an in-memory medical appointment agenda (Flask).       *)
(* Two stores (patients, appointments), two itertools.count generators,    *)
(* the helpers parse_datetime / has_conflict / upcoming_sorted and the     *)
(* request handlers home, create_patient, create_appointment and           *)
(* cancel_appointment.                                                     *)
(*                                                                         *)
(* Python str values are modelled as sequences of one-character strings,   *)
(* so that str.strip, str.lower and datetime.strptime are computed and not *)
(* assumed.                                                                *)
(***************************************************************************)
EXTENDS Integers, Sequences, FiniteSets, TLC

VARIABLES
    patients,      \* dict patients, as its items in insertion order
    appointments,  \* dict appointments, as its items in insertion order
    pid_counter,   \* the value next(pid_counter) yields next
    aid_counter,   \* the value next(aid_counter) yields next
    pid_issued,    \* the values next(pid_counter) has yielded, in order
    aid_issued,    \* the values next(aid_counter) has yielded, in order
    flashed,       \* the message flashed by the latest request
    threaded,      \* whether requests are served concurrently
    pc,            \* per request thread: where it is in create_appointment
    form           \* per request thread: the locals of create_appointment

vars == <<patients, appointments, pid_counter, aid_counter,
          pid_issued, aid_issued, flashed, threaded, pc, form>>

-----------------------------------------------------------------------------
(* Bounds of the exploration.                                              *)

\* largest patient identifier the exploration lets next(pid_counter) yield
\* (a registration that would take a larger one is not explored)
MaxPid == 2
\* largest appointment identifier the exploration lets next(aid_counter) yield
\* (a booking that would take a larger one is not explored)
MaxAid == 2

-----------------------------------------------------------------------------
(* Python str primitives.                                                  *)

Whitespace == {" ", "\t", "\n"}

UpperCase == <<"A","B","C","D","E","F","G","H","I","J","K","L","M",
               "N","O","P","Q","R","S","T","U","V","W","X","Y","Z">>
LowerCase == <<"a","b","c","d","e","f","g","h","i","j","k","l","m",
               "n","o","p","q","r","s","t","u","v","w","x","y","z">>

Digits == <<"0","1","2","3","4","5","6","7","8","9">>

\* value of a decimal digit character
DigitMap == [c \in {Digits[i] : i \in 1..10} |->
                (CHOOSE i \in 1..10 : Digits[i] = c) - 1]

\* lower-case counterpart of an upper-case letter
LowerMap == [c \in {UpperCase[i] : i \in 1..26} |->
                LowerCase[CHOOSE i \in 1..26 : UpperCase[i] = c]]

IsDigit(c) == c \in DOMAIN DigitMap

DigitVal(c) == DigitMap[c]

lower_char(c) == IF c \in DOMAIN LowerMap THEN LowerMap[c] ELSE c

\* str.lower(), computed
str_lower(s) == [i \in 1..Len(s) |-> lower_char(s[i])]

\* str.strip(), computed: drop the leading and the trailing run of whitespace
str_strip(s) ==
    LET keep == {i \in 1..Len(s) : s[i] \notin Whitespace}
    IN  IF keep = {} THEN <<>>
        ELSE LET lo == CHOOSE i \in keep : \A j \in keep : i <= j
                 hi == CHOOSE i \in keep : \A j \in keep : j <= i
             IN  SubSeq(s, lo, hi)

AllDigits(s) == \A i \in 1..Len(s) : IsDigit(s[i])

RECURSIVE NumVal(_)
NumVal(s) ==
    IF Len(s) = 0 THEN 0
    ELSE 10 * NumVal(SubSeq(s, 1, Len(s) - 1)) + DigitVal(s[Len(s)])

\* a raised ValueError; a value that is returned is a non-empty tuple
ValueError == <<>>

-----------------------------------------------------------------------------
(* datetime.strptime(f"{date_str} {time_str}", "%Y-%m-%d %H:%M")           *)

IsLeap(y) == (y % 4 = 0 /\ y % 100 # 0) \/ y % 400 = 0

DaysInMonth(y, m) ==
    IF m = 2 THEN (IF IsLeap(y) THEN 29 ELSE 28)
    ELSE IF m \in {4, 6, 9, 11} THEN 30 ELSE 31

\* a directive of one or two digits whose value lies in lo..hi
\* (%m: 1[0-2]|0[1-9]|[1-9], %H: 2[0-3]|[0-1]\d|\d, %M: [0-5]\d|\d)
MatchNum(t, lo, hi) ==
    Len(t) \in {1, 2} /\ AllDigits(t) /\ NumVal(t) >= lo /\ NumVal(t) <= hi

\* %d: 3[01]|[12]\d|0[1-9]|[1-9]| [1-9]
MatchDay(t) ==
    \/ MatchNum(t, 1, 31)
    \/ Len(t) = 2 /\ t[1] = " " /\ IsDigit(t[2]) /\ DigitVal(t[2]) >= 1

DayVal(t) == IF t[1] = " " THEN DigitVal(t[2]) ELSE NumVal(t)

\* every way the compiled pattern
\*   (\d\d\d\d)-(%m)-(%d)\s+(%H):(%M)
\* matches the whole of s, as the lengths of m, d, H and M (the blank run
\* takes what is left)
StrptimeMatches(s) ==
    {L \in {1,2} \X {1,2} \X {1,2} \X {1,2} :
        LET pm == 6
            pd == pm + L[1] + 1
            ps == pd + L[2]
            pM == Len(s) - L[4] + 1
            pH == pM - 1 - L[3]
        IN  /\ pH > ps
            /\ s[5] = "-"
            /\ s[pd - 1] = "-"
            /\ s[pM - 1] = ":"
            /\ \A i \in ps..(pH - 1) : s[i] \in Whitespace
            /\ AllDigits(SubSeq(s, 1, 4))
            /\ MatchNum(SubSeq(s, pm, pd - 2), 1, 12)
            /\ MatchDay(SubSeq(s, pd, ps - 1))
            /\ MatchNum(SubSeq(s, pH, pM - 2), 0, 23)
            /\ MatchNum(SubSeq(s, pM, Len(s)), 0, 59)}

\* the datetime, as <<year, month, day, hour, minute>>, or ValueError
strptime(date_str, time_str) ==
    LET s == date_str \o <<" ">> \o time_str
        ms == StrptimeMatches(s)
    IN  IF ms = {} THEN ValueError
        ELSE LET L == CHOOSE x \in ms : TRUE
                 pm == 6
                 pd == pm + L[1] + 1
                 ps == pd + L[2]
                 pM == Len(s) - L[4] + 1
                 pH == pM - 1 - L[3]
                 Y == NumVal(SubSeq(s, 1, 4))
                 m == NumVal(SubSeq(s, pm, pd - 2))
                 d == DayVal(SubSeq(s, pd, ps - 1))
                 H == NumVal(SubSeq(s, pH, pM - 2))
                 M == NumVal(SubSeq(s, pM, Len(s)))
             IN  IF Y < 1 \/ d > DaysInMonth(Y, m) THEN ValueError
                 ELSE <<Y, m, d, H, M>>

-----------------------------------------------------------------------------
(* Flash messages (flask.flash): category, text and the identifier the     *)
(* text mentions.                                                          *)

ValidationError == "Todos los campos son obligatorios."
DuplicateDocumentError == "Ya existe un paciente con ese documento."
InvalidPatientError == "Paciente no valido o no seleccionado."
InvalidDateTimeError == "Fecha u hora con formato invalido."
MissingDoctorError == "Debe seleccionar un medico."
ConflictError == "Conflicto de agenda: ese medico ya tiene una cita en ese horario."
NotFoundError == "La cita no existe."
PatientRegistered == "Paciente registrado correctamente."
AppointmentCreated == "Cita creada correctamente."
AppointmentCancelled == "Cita cancelada."

NoFlash == [cat |-> "none", msg |-> "none", id |-> 0]
Err(m) == [cat |-> "err", msg |-> m, id |-> 0]
Ok(m, i) == [cat |-> "ok", msg |-> m, id |-> i]

-----------------------------------------------------------------------------
(* Form values the exploration submits.                                    *)

\* medico query argument of the listing: none, blank, two doctors
DoctorFilters == { <<>>, <<" ">>, <<" ", "l">>, <<"P">> }

D_0310 == <<"2","0","2","5","-","0","3","-","1","0">>
D_310 == <<"2","0","2","5","-","3","-","1","0">>
D_0309 == <<"2","0","2","5","-","0","3","-","0","9">>
D_0230 == <<"2","0","2","5","-","0","2","-","3","0">>
T_0900 == <<"0","9",":","0","0">>
T_900 == <<"9",":","0","0">>
T_1000 == <<"1","0",":","0","0">>

\* (paciente_id, fecha, hora, medico) fields.  Accepted on an empty agenda:
\* a slot; the same slot with the doctor in another spelling; the same slot
\* written without leading zeros; a later time; an earlier date (fields with
\* surrounding blanks); another doctor for another patient.  Rejected: an
\* unknown patient; a patient id that is no number, with no time and no
\* doctor; an impossible date with a blank doctor; a blank doctor.
AppointmentForms ==
    { <<<<"1">>, D_0310, T_0900, <<"L">>>>,
      <<<<"1">>, D_0310, T_0900, <<" ", "l", " ">>>>,
      <<<<"1">>, D_310, T_900, <<"L">>>>,
      <<<<"1">>, D_0310, T_1000, <<"L">>>>,
      <<<<"1">>, <<" ">> \o D_0309, T_0900 \o <<" ">>, <<" ", "l", " ">>>>,
      <<<<" ", "2">>, D_0310, T_0900, <<"P">>>>,
      <<<<"9">>, D_0310, T_0900, <<"L">>>>,
      <<<<"x">>, D_0310, <<>>, <<>>>>,
      <<<<"1">>, D_0230, T_0900, <<" ">>>>,
      <<<<"1">>, D_0310, T_0900, <<" ">>>> }

Doc_cc1 == <<"c","c","1">>
Doc_CC1 == <<" ","C","C","1"," ">>
Doc_cc2 == <<"c","c","2">>
Name_Ana == <<"A","n","a">>
Tel_3 == <<"3","0","0">>
Mail_a == <<"a","@","x">>

\* (nombre, documento, telefono, correo) fields: a document in two
\* spellings, another document, a missing name with a document, a blank
\* telephone
PatientForms ==
    { <<Name_Ana, Doc_cc1, Tel_3, Mail_a>>,
      <<Name_Ana, Doc_CC1, Tel_3, Mail_a>>,
      <<Name_Ana, Doc_cc2, Tel_3, Mail_a>>,
      <<<<>>, Doc_cc1, Tel_3, Mail_a>>,
      <<Name_Ana, Doc_cc2, <<" ">>, Mail_a>> }

-----------------------------------------------------------------------------
(* The str methods and parse_datetime as the handlers call them.  Their    *)
(* results on the texts that occur in the explored forms and in the seed   *)
(* data are tabulated once; any other argument is computed on the spot.    *)

FormTexts ==
    UNION {{f[1], f[2], f[3], f[4]} : f \in AppointmentForms \cup PatientForms}
    \cup DoctorFilters
    \cup {<<"J","u","a","n">>, <<"C","C","-","1","0","0","1">>,
          <<"C","C","-","1","0","0","2">>, <<"3","0","0","1">>,
          <<"3","0","0","2">>, <<"j","@","x">>}

Texts == FormTexts \cup {str_strip(s) : s \in FormTexts}

StripTable == [s \in Texts |-> str_strip(s)]
LowerTable == [s \in Texts |-> str_lower(s)]
StrptimeTable == [d \in Texts |-> [t \in Texts |-> strptime(d, t)]]

\* str.strip()
strip(s) == IF s \in Texts THEN StripTable[s] ELSE str_strip(s)

\* str.lower()
lower(s) == IF s \in Texts THEN LowerTable[s] ELSE str_lower(s)

\* the comparison key used for doctor names and documents: s.strip().lower()
strip_lower(s) == lower(strip(s))

\* int(text) of a form field, computed, as <<n>>: surrounding whitespace and one sign
\* are accepted; anything else raises ValueError

str_to_int(s) ==
    LET t == str_strip(s)
        signed == Len(t) > 0 /\ t[1] \in {"+", "-"}
        body == IF signed THEN Tail(t) ELSE t
    IN  IF Len(body) = 0 \/ ~AllDigits(body) THEN ValueError
        ELSE IF signed /\ t[1] = "-" THEN <<0 - NumVal(body)>>
        ELSE <<NumVal(body)>>

IntTable == [s \in Texts |-> str_to_int(s)]

to_int(s) == IF s \in Texts THEN IntTable[s] ELSE str_to_int(s)

parse_datetime(date_str, time_str) ==
    IF date_str \in Texts /\ time_str \in Texts
    THEN StrptimeTable[date_str][time_str]
    ELSE strptime(date_str, time_str)

\* datetime.__lt__ on two parsed values
RECURSIVE TupleLess(_, _)
TupleLess(a, b) ==
    IF Len(a) = 0 \/ Len(b) = 0 THEN FALSE
    ELSE IF a[1] # b[1] THEN a[1] < b[1]
    ELSE TupleLess(Tail(a), Tail(b))

Threads == {1, 2}

NoForm == [paciente_id |-> 0, fecha |-> <<>>, hora |-> <<>>, medico |-> <<>>]

-----------------------------------------------------------------------------
(* Stores.  A dict is the sequence of its items in insertion order.        *)

Range(f) == {f[i] : i \in DOMAIN f}

Ids(store) == {store[i].id : i \in 1..Len(store)}

\* seed_demo(): two sample patients when the registry is empty
SeedPatients ==
    << [id |-> 1, nombre |-> <<"J","u","a","n">>,
        documento |-> <<"C","C","-","1","0","0","1">>,
        telefono |-> <<"3","0","0","1">>, correo |-> <<"j","@","x">>],
       [id |-> 2, nombre |-> <<"A","n","a">>,
        documento |-> <<"C","C","-","1","0","0","2">>,
        telefono |-> <<"3","0","0","2">>, correo |-> <<"a","@","x">>] >>

\* the module as imported (no seed) or as run by __main__ (seed_demo first)
InitStores ==
    /\ appointments = <<>>
    /\ aid_counter = 1
    /\ aid_issued = <<>>
    /\ flashed = NoFlash
    /\ \/ patients = <<>> /\ pid_counter = 1 /\ pid_issued = <<>>
       \/ patients = SeedPatients /\ pid_counter = 3 /\ pid_issued = <<1, 2>>

Init ==
    /\ InitStores
    /\ threaded = FALSE
    /\ pc = [t \in Threads |-> "idle"]
    /\ form = [t \in Threads |-> NoForm]

-----------------------------------------------------------------------------
(* Helpers of the handlers.                                                *)

\* has_conflict comparing the doctor names as written
has_conflict_as_written(medico, fecha, hora) ==
    \E i \in 1..Len(appointments) :
        /\ appointments[i].medico = medico
        /\ appointments[i].fecha = fecha
        /\ appointments[i].hora = hora

\* has_conflict comparing doctor and date only
has_conflict_whole_day(medico, fecha, hora) ==
    \E i \in 1..Len(appointments) :
        /\ strip_lower(appointments[i].medico) = strip_lower(medico)
        /\ appointments[i].fecha = fecha

has_conflict(medico, fecha, hora) ==
    \E i \in 1..Len(appointments) :
        /\ strip_lower(appointments[i].medico) = strip_lower(medico)
        /\ appointments[i].fecha = fecha
        /\ appointments[i].hora = hora

\* keyfun ordering by the date alone
keyfun_date(a) == SubSeq(parse_datetime(a.fecha, a.hora), 1, 3)

\* keyfun of upcoming_sorted
keyfun(a) == parse_datetime(a.fecha, a.hora)

\* sorted(items, key=keyfun): stable, ascending; insertion of each item after
\* the last item that is not greater
RECURSIVE InsertSorted(_, _)
InsertSorted(sorted, a) ==
    IF Len(sorted) = 0 THEN <<a>>
    ELSE IF TupleLess(keyfun(a), keyfun(sorted[Len(sorted)]))
         THEN Append(InsertSorted(SubSeq(sorted, 1, Len(sorted) - 1), a),
                     sorted[Len(sorted)])
         ELSE Append(sorted, a)

\* def upcoming_sorted(aps)
RECURSIVE upcoming_sorted(_)
upcoming_sorted(aps) ==
    IF Len(aps) = 0 THEN <<>>
    ELSE InsertSorted(upcoming_sorted(SubSeq(aps, 1, Len(aps) - 1)), aps[Len(aps)])

\* the listing home() renders for the query argument medico
home_ordered(medico_arg) ==
    LET medico_filter == strip(medico_arg)
        ordered == upcoming_sorted(appointments)
    IN  IF Len(medico_filter) > 0
        THEN SelectSeq(ordered,
                 LAMBDA a : strip_lower(a.medico) = strip_lower(medico_filter))
        ELSE ordered

\* int(request.form.get("paciente_id", "0")), 0 on ValueError
form_paciente_id(text) ==
    IF to_int(text) = ValueError THEN 0 ELSE to_int(text)[1]

\* the uniqueness loop comparing the documents as written
document_exists_as_written(documento) ==
    \E i \in 1..Len(patients) : strip(patients[i].documento) = documento

\* the "Documento unico" loop of create_patient
document_exists(documento) ==
    \E i \in 1..Len(patients) :
        strip_lower(patients[i].documento) = lower(documento)

\* the checks with the doctor looked at before the date and time
appointment_error_doctor_first(paciente_id, fecha, hora, medico) ==
    IF paciente_id \notin Ids(patients) THEN InvalidPatientError
    ELSE IF Len(medico) = 0 THEN MissingDoctorError
    ELSE IF parse_datetime(fecha, hora) = ValueError THEN InvalidDateTimeError
    ELSE IF has_conflict(medico, fecha, hora) THEN ConflictError
    ELSE "ok"

\* the checks without the patient lookup
appointment_error_any_patient(paciente_id, fecha, hora, medico) ==
    IF parse_datetime(fecha, hora) = ValueError THEN InvalidDateTimeError
    ELSE IF Len(medico) = 0 THEN MissingDoctorError
    ELSE IF has_conflict(medico, fecha, hora) THEN ConflictError
    ELSE "ok"

\* the checks of create_appointment in order: the message of the first one
\* that fails, or "ok"
appointment_error(paciente_id, fecha, hora, medico) ==
    IF paciente_id \notin Ids(patients) THEN InvalidPatientError
    ELSE IF parse_datetime(fecha, hora) = ValueError THEN InvalidDateTimeError
    ELSE IF Len(medico) = 0 THEN MissingDoctorError
    ELSE IF has_conflict(medico, fecha, hora) THEN ConflictError
    ELSE "ok"

\* an identifier taken from the size of the store instead of the generator
next_aid_by_size == Len(appointments) + 1

\* next(aid_counter) / next(pid_counter): the value the generator yields
next_aid == aid_counter
next_pid == pid_counter

\* a deletion that also drops the appointments created before
del_appointment_upto(aps, appointment_id) ==
    SelectSeq(aps, LAMBDA a : a.id > appointment_id)

\* del appointments[appointment_id]
del_appointment(aps, appointment_id) ==
    SelectSeq(aps, LAMBDA a : a.id # appointment_id)

\* the tail of create_appointment: take an identifier, store, flash
insert_appointment(paciente_id, fecha, hora, medico) ==
    LET a_id == next_aid
    IN  /\ aid_counter' = aid_counter + 1
        /\ aid_issued' = Append(aid_issued, a_id)
        /\ appointments' = Append(appointments,
               [id |-> a_id, paciente_id |-> paciente_id, fecha |-> fecha,
                hora |-> hora, medico |-> medico, estado |-> "Programada"])
        /\ flashed' = Ok(AppointmentCreated, a_id)

-----------------------------------------------------------------------------
(* Handlers, one request at a time.                                        *)

conc_vars == <<threaded, pc, form>>
patient_vars == <<patients, pid_counter, pid_issued>>
appointment_vars == <<appointments, aid_counter, aid_issued>>

\* GET /  (the page shows home_ordered(medico_arg); rendering it drains the
\* flashed messages)
home(medico_arg) ==
    /\ flashed' = NoFlash
    /\ UNCHANGED <<patient_vars, appointment_vars, conc_vars>>

\* POST /patients
create_patient(nombre_f, documento_f, telefono_f, correo_f) ==
    LET nombre == strip(nombre_f)
        documento == strip(documento_f)
        telefono == strip(telefono_f)
        correo == strip(correo_f)
    IN  /\ IF \E x \in {nombre, documento, telefono, correo} : Len(x) = 0
           THEN /\ flashed' = Err(ValidationError)
                /\ UNCHANGED patient_vars
           ELSE IF document_exists(documento)
           THEN /\ flashed' = Err(DuplicateDocumentError)
                /\ UNCHANGED patient_vars
           ELSE LET p_id == next_pid
                IN  /\ pid_counter <= MaxPid
                    /\ pid_counter' = pid_counter + 1
                    /\ pid_issued' = Append(pid_issued, p_id)
                    /\ patients' = Append(patients,
                           [id |-> p_id, nombre |-> nombre,
                            documento |-> documento, telefono |-> telefono,
                            correo |-> correo])
                    /\ flashed' = Ok(PatientRegistered, p_id)
        /\ UNCHANGED <<appointment_vars, conc_vars>>

\* POST /appointments
create_appointment(paciente_id_f, fecha_f, hora_f, medico_f) ==
    LET paciente_id == form_paciente_id(paciente_id_f)
        fecha == strip(fecha_f)
        hora == strip(hora_f)
        medico == strip(medico_f)
        err == appointment_error(paciente_id, fecha, hora, medico)
    IN  /\ UNCHANGED <<patient_vars, conc_vars>>
        /\ IF err # "ok"
           THEN /\ flashed' = Err(err)
                /\ UNCHANGED appointment_vars
           ELSE /\ aid_counter <= MaxAid
                /\ insert_appointment(paciente_id, fecha, hora, medico)

\* POST /appointments/<int:appointment_id>/cancel
cancel_appointment(appointment_id) ==
    /\ IF appointment_id \notin Ids(appointments)
       THEN /\ flashed' = Err(NotFoundError)
            /\ UNCHANGED appointments
       ELSE /\ appointments' = del_appointment(appointments, appointment_id)
            /\ flashed' = Ok(AppointmentCancelled, appointment_id)
    /\ UNCHANGED <<aid_counter, aid_issued, patient_vars, conc_vars>>

Register == \E f \in PatientForms : create_patient(f[1], f[2], f[3], f[4])

Book ==
    \E f \in AppointmentForms : create_appointment(f[1], f[2], f[3], f[4])

Cancel == \E i \in 1..(MaxAid + 1) : cancel_appointment(i)

List == \E m \in DoctorFilters : home(m)

Next == Register \/ Book \/ Cancel \/ List

Spec == Init /\ [][Next]_vars

-----------------------------------------------------------------------------
(* create_appointment under the threaded development server                *)
(* (app.run(debug=True)): a request runs up to and including the conflict  *)
(* check, and takes its identifier and stores in a later step.  threaded   *)
(* = FALSE is a host that serves one request at a time.                    *)

\* lines 347-375: read the form, validate, check the conflict
begin_appointment(t, paciente_id_f, fecha_f, hora_f, medico_f) ==
    LET paciente_id == form_paciente_id(paciente_id_f)
        fecha == strip(fecha_f)
        hora == strip(hora_f)
        medico == strip(medico_f)
        err == appointment_error(paciente_id, fecha, hora, medico)
    IN  /\ pc[t] = "idle"
        /\ threaded \/ \A u \in Threads : pc[u] # "checked"
        /\ form' = [form EXCEPT ![t] =
               [paciente_id |-> paciente_id, fecha |-> fecha,
                hora |-> hora, medico |-> medico]]
        /\ IF err # "ok"
           THEN /\ flashed' = Err(err)
                /\ pc' = [pc EXCEPT ![t] = "rejected"]
           ELSE /\ flashed' = flashed
                /\ pc' = [pc EXCEPT ![t] = "checked"]
        /\ UNCHANGED <<patient_vars, appointment_vars, threaded>>

\* a second conflict check, made in one step with the insert
commit_appointment_guarded(t) ==
    /\ pc[t] = "checked"
    /\ IF has_conflict(form[t].medico, form[t].fecha, form[t].hora)
       THEN /\ flashed' = Err(ConflictError)
            /\ pc' = [pc EXCEPT ![t] = "rejected"]
            /\ UNCHANGED appointment_vars
       ELSE /\ insert_appointment(form[t].paciente_id, form[t].fecha,
                                  form[t].hora, form[t].medico)
            /\ pc' = [pc EXCEPT ![t] = "committed"]
    /\ UNCHANGED <<patient_vars, threaded, form>>

\* lines 377-386: next(aid_counter), store, flash
commit_appointment(t) ==
    /\ pc[t] = "checked"
    /\ insert_appointment(form[t].paciente_id, form[t].fecha,
                          form[t].hora, form[t].medico)
    /\ pc' = [pc EXCEPT ![t] = "committed"]
    /\ UNCHANGED <<patient_vars, threaded, form>>

BeginBook ==
    \E t \in Threads, f \in AppointmentForms :
        begin_appointment(t, f[1], f[2], f[3], f[4])

CommitBook == \E t \in Threads : commit_appointment(t)

InitConc ==
    /\ InitStores
    /\ patients = SeedPatients
    /\ threaded \in BOOLEAN
    /\ pc = [t \in Threads |-> "idle"]
    /\ form = [t \in Threads |-> NoForm]

NextConc == BeginBook \/ CommitBook

SpecConc == InitConc /\ [][NextConc]_vars

-----------------------------------------------------------------------------
(* Vocabulary of the properties.                                           *)

\* the fields create_appointment reads from a submitted form
FormPatient(f) == form_paciente_id(f[1])
FormFecha(f) == strip(f[2])
FormHora(f) == strip(f[3])
FormMedico(f) == strip(f[4])

\* the (doctor, date, time) tuple of a stored appointment: doctor trimmed
\* and lowercased, date and time as stored
SlotKey(a) == <<strip_lower(a.medico), a.fecha, a.hora>>

FormKey(f) == <<strip_lower(f[4]), FormFecha(f), FormHora(f)>>

\* the calendar date and time of day a stored appointment denotes
Instant(a) == parse_datetime(a.fecha, a.hora)

\* a form that passes the patient, date/time and doctor checks
WellFormed(f) ==
    /\ FormPatient(f) \in Ids(patients)
    /\ parse_datetime(FormFecha(f), FormHora(f)) # ValueError
    /\ Len(FormMedico(f)) > 0

\* the four fields of a registration are non-empty after trimming
Complete(f) == \A k \in 1..4 : Len(strip(f[k])) > 0

IsPrefix(s, t) == Len(s) <= Len(t) /\ SubSeq(t, 1, Len(s)) = s

Counts(seq) == \A i \in 1..Len(seq) : seq[i] = i

Increasing(store) ==
    \A i, j \in 1..Len(store) : i < j => store[i].id < store[j].id

-----------------------------------------------------------------------------
(* C1: with requests served one at a time, no two stored appointments have *)
(* the same (doctor, date, time) tuple, the doctor compared trimmed and    *)
(* lowercased, date and time compared as the stored strings.               *)
C1_NoSharedSlot ==
    \A i, j \in 1..Len(appointments) :
        i # j => SlotKey(appointments[i]) # SlotKey(appointments[j])

\* two appointments of one doctor, spelled differently, at different slots
C1_Witness ==
    \E i, j \in 1..Len(appointments) :
        /\ appointments[i].medico # appointments[j].medico
        /\ strip_lower(appointments[i].medico) = strip_lower(appointments[j].medico)
        /\ flashed = Err(ConflictError)

(* C2: a book call with an existing patient, a parseable date/time and a   *)
(* non-empty doctor fails with ConflictError, storing nothing, exactly     *)
(* when a stored appointment has the same normalized doctor and the same   *)
(* date and time; otherwise it stores exactly one new appointment.         *)
C2_Step(f) ==
    WellFormed(f) /\ create_appointment(f[1], f[2], f[3], f[4]) =>
        IF \E i \in 1..Len(appointments) : SlotKey(appointments[i]) = FormKey(f)
        THEN /\ flashed' = Err(ConflictError)
             /\ UNCHANGED appointment_vars
        ELSE /\ flashed'.cat = "ok"
             /\ Len(appointments') = Len(appointments) + 1
             /\ IsPrefix(appointments, appointments')
             /\ LET a == appointments'[Len(appointments')]
                IN  /\ a.paciente_id = FormPatient(f)
                    /\ a.fecha = FormFecha(f)
                    /\ a.hora = FormHora(f)
                    /\ a.medico = FormMedico(f)

C2_ConflictExactly == [][\A f \in AppointmentForms : C2_Step(f)]_vars

\* a rejected booking, next to the same doctor stored at two different slots
C2_Witness ==
    /\ flashed = Err(ConflictError)
    /\ \E i, j \in 1..Len(appointments) :
        /\ strip_lower(appointments[i].medico) = strip_lower(appointments[j].medico)
        /\ <<appointments[i].fecha, appointments[i].hora>>
             # <<appointments[j].fecha, appointments[j].hora>>

(* C3: per entity type the identifiers handed out are 1, 2, 3, ... in      *)
(* creation order; a rejected call consumes none, and an identifier freed  *)
(* by cancel is not handed out again.                                      *)
C3_State ==
    /\ Counts(pid_issued) /\ Counts(aid_issued)
    /\ pid_counter = Len(pid_issued) + 1
    /\ aid_counter = Len(aid_issued) + 1
    /\ Ids(patients) \subseteq Range(pid_issued)
    /\ Ids(appointments) \subseteq Range(aid_issued)
    /\ Increasing(patients) /\ Increasing(appointments)
    /\ Cardinality(Ids(appointments)) = Len(appointments)
    /\ Cardinality(Ids(patients)) = Len(patients)

C3_Step ==
    /\ flashed'.cat = "err" => UNCHANGED <<pid_counter, aid_counter, pid_issued, aid_issued>>
    /\ Ids(appointments') \ Ids(appointments) \subseteq {aid_counter}
    /\ Ids(patients') \ Ids(patients) \subseteq {pid_counter}
    /\ \A i \in Range(aid_issued) : i \notin Ids(appointments) => i \notin Ids(appointments')
    /\ aid_counter' # aid_counter =>
           /\ aid_counter' = aid_counter + 1
           /\ Ids(appointments') = Ids(appointments) \cup {aid_counter}
           /\ flashed' = Ok(AppointmentCreated, aid_counter)
    /\ pid_counter' # pid_counter =>
           /\ pid_counter' = pid_counter + 1
           /\ Ids(patients') = Ids(patients) \cup {pid_counter}
           /\ flashed' = Ok(PatientRegistered, pid_counter)

C3_SequentialIds == []C3_State /\ [][C3_Step]_vars

\* appointment 1 was cancelled and the next booking got identifier 2
C3_Witness ==
    /\ aid_issued = <<1, 2>>
    /\ Ids(appointments) = {2}
    /\ Len(pid_issued) >= 2

(* C4 as stated: a register call whose normalized document equals that of  *)
(* a stored patient fails with DuplicateDocumentError and leaves the       *)
(* patient store and the patient id counter unchanged.                     *)
DocumentStored(f) ==
    \E i \in 1..Len(patients) :
        strip_lower(patients[i].documento) = strip_lower(f[2])

C4_Original ==
    [][\A f \in PatientForms :
          create_patient(f[1], f[2], f[3], f[4]) /\ DocumentStored(f) =>
              /\ flashed' = Err(DuplicateDocumentError)
              /\ UNCHANGED patient_vars]_vars

(* C4 amended: a register call with all four fields non-empty after        *)
(* trimming whose normalized document equals that of a stored patient      *)
(* fails with DuplicateDocumentError; every register call for a stored     *)
(* document leaves the patient store and counter unchanged; no two stored  *)
(* patients have the same normalized document.                             *)
C4_Step(f) ==
    create_patient(f[1], f[2], f[3], f[4]) /\ DocumentStored(f) =>
        /\ UNCHANGED patient_vars
        /\ flashed'.cat = "err"
        /\ Complete(f) => flashed' = Err(DuplicateDocumentError)

C4_State ==
    \A i, j \in 1..Len(patients) :
        i # j => strip_lower(patients[i].documento) # strip_lower(patients[j].documento)

C4_DuplicateDocument == []C4_State /\ [][\A f \in PatientForms : C4_Step(f)]_vars

\* a duplicate was just rejected while two patients are registered
C4_Witness ==
    /\ flashed = Err(DuplicateDocumentError)
    /\ Len(patients) >= 2

(* C5: cancel of a stored identifier removes exactly that appointment,     *)
(* leaves the others, the patients and both counters alone, and no listing *)
(* shows it afterwards; cancel of an absent identifier yields              *)
(* NotFoundError and changes nothing else.                                 *)
C5_Cancel(i) ==
    cancel_appointment(i) =>
        /\ UNCHANGED <<patient_vars, aid_counter, aid_issued>>
        /\ IF i \in Ids(appointments)
           THEN /\ appointments' = SelectSeq(appointments, LAMBDA a : a.id # i)
                /\ Len(appointments') = Len(appointments) - 1
                /\ i \notin Ids(appointments')
                /\ flashed' = Ok(AppointmentCancelled, i)
           ELSE /\ flashed' = Err(NotFoundError)
                /\ UNCHANGED appointments

\* an identifier that was handed out and is no longer stored does not come
\* back
C5_StaysOut ==
    \A i \in Range(aid_issued) :
        i \notin Ids(appointments) => i \notin Ids(appointments')

\* a listing shows stored identifiers only
C5_Listed ==
    \A m \in DoctorFilters : Ids(home_ordered(m)) \subseteq Ids(appointments)

C5_CancelRemoves ==
    /\ []C5_Listed
    /\ [][(\A i \in 1..(MaxAid + 1) : C5_Cancel(i)) /\ C5_StaysOut]_vars

\* appointment 1 was just cancelled and appointment 2 is still stored
C5_Witness ==
    /\ flashed = Ok(AppointmentCancelled, 1)
    /\ Len(appointments) = 1
    /\ appointments[1].id = 2

(* C6: the listing for a filter holds each stored appointment whose        *)
(* normalized doctor equals the normalized filter (every stored one when   *)
(* the filter is empty once trimmed) exactly once and nothing else, in     *)
(* non-decreasing order of the parsed (date, time); listing changes no     *)
(* store.                                                                  *)
Selected(a, m) ==
    strip_lower(m) = <<>> \/ strip_lower(a.medico) = strip_lower(m)

C6_Listing(m) ==
    LET out == home_ordered(m)
    IN  /\ \A k \in 1..Len(out) : out[k] \in Range(appointments)
        /\ \A i \in 1..Len(appointments) :
              Cardinality({k \in 1..Len(out) : out[k] = appointments[i]})
                  = IF Selected(appointments[i], m) THEN 1 ELSE 0
        /\ \A k, l \in 1..Len(out) :
              k < l => ~TupleLess(Instant(out[l]), Instant(out[k]))

C6_ListOrdered ==
    /\ [](\A m \in DoctorFilters : C6_Listing(m))
    /\ [][\A m \in DoctorFilters :
             home(m) => UNCHANGED <<patient_vars, appointment_vars>>]_vars

\* two doctors are stored, and an appointment booked later is earlier in time
C6_Witness ==
    \E i, j \in 1..Len(appointments) :
        /\ i < j
        /\ TupleLess(Instant(appointments[j]), Instant(appointments[i]))
        /\ strip_lower(appointments[i].medico) # strip_lower(appointments[j].medico)

(* C7: book reports the first failing check in the order patient,          *)
(* date/time, doctor, conflict, and every rejection leaves both stores and *)
(* the appointment id counter unchanged.                                   *)
C7_Step(f) ==
    create_appointment(f[1], f[2], f[3], f[4]) =>
        LET known == FormPatient(f) \in Ids(patients)
            parsed == parse_datetime(FormFecha(f), FormHora(f)) # ValueError
            named == Len(FormMedico(f)) > 0
        IN  /\ ~known => flashed' = Err(InvalidPatientError)
            /\ known /\ ~parsed => flashed' = Err(InvalidDateTimeError)
            /\ known /\ parsed /\ ~named => flashed' = Err(MissingDoctorError)
            /\ known /\ parsed /\ named =>
                   flashed' \in {Err(ConflictError), Ok(AppointmentCreated, aid_counter)}
            /\ flashed'.cat = "err" =>
                   UNCHANGED <<patient_vars, appointment_vars>>

C7_FirstFailingCheck == [][\A f \in AppointmentForms : C7_Step(f)]_vars

\* a booking was rejected for its date/time while an appointment is stored
C7_Witness ==
    /\ flashed = Err(InvalidDateTimeError)
    /\ Len(appointments) >= 1

(* C8: no two stored appointments of the same normalized doctor denote the *)
(* same calendar date and time of day, however the two were written.       *)
C8_NoSharedInstant ==
    \A i, j \in 1..Len(appointments) :
        i # j /\ strip_lower(appointments[i].medico) = strip_lower(appointments[j].medico)
            => Instant(appointments[i]) # Instant(appointments[j])

(* C9: check and insert of book are not one atomic step.  A request that   *)
(* passed the conflict check stores its appointment whatever was stored in *)
(* between, so two interleaved requests for the same (doctor, date, time)  *)
(* both commit, with distinct identifiers; a host that serves one request  *)
(* at a time never reaches two appointments with one tuple.                *)
Doubles ==
    \E i, j \in 1..Len(appointments) :
        /\ i # j
        /\ SlotKey(appointments[i]) = SlotKey(appointments[j])
        /\ appointments[i].id # appointments[j].id

C9_State ==
    /\ ~threaded => ~Doubles
    /\ \A t, u \in Threads :
          /\ t # u
          /\ pc[t] = "committed" /\ pc[u] = "committed"
          /\ <<strip_lower(form[t].medico), form[t].fecha, form[t].hora>>
               = <<strip_lower(form[u].medico), form[u].fecha, form[u].hora>>
          => Doubles
    /\ Cardinality(Ids(appointments)) = Len(appointments)

C9_Step ==
    \A t \in Threads :
        pc[t] = "checked" /\ pc'[t] # "checked" =>
            /\ pc'[t] = "committed"
            /\ Len(appointments') = Len(appointments) + 1
            /\ SlotKey(appointments'[Len(appointments')])
                 = <<strip_lower(form[t].medico), form[t].fecha, form[t].hora>>

C9_RaceDoubleBooks == []C9_State /\ [][C9_Step]_vars

\* both interleaved requests committed: one tuple is stored twice
C9_Witness ==
    /\ threaded
    /\ Doubles
    /\ \A t \in Threads : pc[t] = "committed"

(* C10: every stored appointment refers to a stored patient; stored        *)
(* patients are never removed or changed, and book and cancel leave the    *)
(* patient store unchanged.                                                *)
C10_State ==
    \A i \in 1..Len(appointments) :
        appointments[i].paciente_id \in Ids(patients)

\* a step that writes the patient store or its counter is no
\* create_appointment and no cancel_appointment step
C10_Step ==
    /\ IsPrefix(patients, patients')
    /\ patient_vars' # patient_vars =>
          /\ \A f \in AppointmentForms :
                ~create_appointment(f[1], f[2], f[3], f[4])
          /\ \A i \in 1..(MaxAid + 1) : ~cancel_appointment(i)

C10_PatientReference == []C10_State /\ [][C10_Step]_vars

\* an appointment of the second registered patient is stored
C10_Witness ==
    \E i \in 1..Len(appointments) :
        /\ appointments[i].paciente_id = 2
        /\ Len(patients) = 2
        /\ pid_issued = <<1, 2>>

====
